---- MODULE Spec2Model ----
(***************************************************************************)
(* A model of InstallCommand.run (src/pip/commands/install.py:196-297).    *)
(* One run of the command is one behaviour: pc walks the statements of     *)
(* run, the calls made on the RequirementSet collaborator and on the       *)
(* filesystem are appended to `calls`, logger output to `log`.  Every      *)
(* collaborator or filesystem call may return or raise; run contains no    *)
(* try/except/finally, so a raise ends the run at once (pc = "failed").    *)
(***************************************************************************)
EXTENDS Integers, Sequences, FiniteSets, TLC

\* ---- bounds ----
MaxArgs == 1          \* positional requirement specifiers
MaxEditables == 1     \* -e options
MaxFiles == 1         \* -r options
MaxFileLen == 1       \* requirements parsed from one file
MaxItems == 2         \* entries install may stage under home_lib(temp_target_dir)

Items == 1..MaxItems

\* entry names the target directory may already hold as directories before the run
PreExisting == {1}

VARIABLES
    pc,              \* position in run
    options,         \* the options object (mutated by run, lines 198-199, 208)
    given,           \* the option values as the user passed them
    bundle,          \* self.bundle (line 40; True in the bundle subclass)
    args,            \* number of positional specifiers
    requirements,    \* options.requirements: sequence of file lengths
    install_options, \* line 202, 206, 213
    requirement_set, \* sequence of added requirements, in order of addition
    idx,             \* loop cursor of the collector loops (lines 233-241)
    sub,             \* inner cursor of the requirement-file loop (line 240)
    parsed,          \* files parse_requirements was called on, in order (line 240)
    plan,            \* <<>> until RequirementSet(...) is constructed (lines 222-232),
                     \* then <<the keyword arguments it was given>>
    calls,           \* collaborator / filesystem calls made so far, in order
    log,             \* logger.warn / logger.notify messages, in order
    err,             \* which statement raised ("none" while nothing raised)
    ret,             \* "pending" | "None" (line 252) | "requirement_set" (line 297)
    mode,            \* branch of lines 270-283 taken: "none" | "install" | "downloaded" | "bundle"
    passed,          \* <<>> until install is called, then <<its install_options argument>>
    marked,          \* requirement_set.successfully_installed / successfully_downloaded
                     \* as read at line 273 / 278 (indices into requirement_set)
    temp_target_dir, \* "unset" | "exists" | "removed"
    target,          \* what is at options.target_dir: "absent" | "dir" | "file"
    targetPre,       \* names that already exist as directories inside target
    lib_dir,         \* home_lib(temp_target_dir): "missing" | "exists"
    lib,             \* the entries under lib_dir
    listed,          \* os.listdir(lib_dir) result still to be moved
    atRoot,          \* entries now at os.path.join(target_dir, item)
    nested           \* entries that landed at target_dir/item/item

inputs == <<given, bundle, args, requirements>>
collector == <<requirement_set, idx, sub, parsed, plan>>
fs == <<temp_target_dir, target, targetPre, lib_dir, lib, listed, atRoot, nested>>

vars == <<pc, options, install_options, calls, log, err, ret, mode, marked, passed,
          inputs, collector, fs>>

\* sequences over S of length at most n
RECURSIVE SeqsUpTo(_, _)
SeqsUpTo(S, n) ==
    IF n = 0 THEN {<<>>}
    ELSE LET shorter == SeqsUpTo(S, n - 1)
         IN shorter \cup {Append(s, x) : s \in {t \in shorter : Len(t) = n - 1}, x \in S}

Count(s, c) == Cardinality({i \in 1..Len(s) : s[i] = c})
Called(c) == \E i \in 1..Len(calls) : calls[i] = c

OptionSpace ==
    [download_dir : BOOLEAN, no_install : BOOLEAN, ignore_installed : BOOLEAN,
     use_user_site : BOOLEAN, target_dir : BOOLEAN, no_download : BOOLEAN,
     editables : 0..MaxEditables,
     install_options : {<<>>, <<"--opt">>}]

Init ==
    /\ pc = "download_dir"
    /\ given \in OptionSpace
    /\ options = given
    /\ bundle \in BOOLEAN
    /\ args \in 0..MaxArgs
    /\ requirements \in SeqsUpTo(0..MaxFileLen, MaxFiles)
    /\ install_options = given.install_options      \* line 202
    /\ requirement_set = <<>>
    /\ idx = 1
    /\ sub = 1
    /\ parsed = <<>>
    /\ plan = <<>>
    /\ calls = <<>>
    /\ log = <<>>
    /\ err = "none"
    /\ ret = "pending"
    /\ mode = "none"
    /\ marked = {}
    /\ passed = <<>>
    /\ temp_target_dir = "unset"
    /\ target \in (IF given.target_dir THEN {"absent", "dir", "file"} ELSE {"absent"})
    /\ targetPre \in (IF target = "dir" THEN SUBSET PreExisting ELSE {{}})
    /\ lib_dir = "missing"
    /\ lib = {}
    /\ listed = {}
    /\ atRoot = {}
    /\ nested = {}

\* a raise: nothing in run catches it (no try/finally in lines 196-297)
Raise(e) ==
    /\ pc' = "failed"
    /\ err' = e
    /\ ret' = ret

Goto(l) ==
    /\ pc' = l
    /\ err' = err
    /\ ret' = ret

Return(v) ==
    /\ pc' = "done"
    /\ err' = err
    /\ ret' = v

\* mutant of ForceDownloadDir: only ignore_installed is forced
ForceDownloadDir_KeepsNoInstall ==
    /\ pc = "download_dir"
    /\ options' = IF options.download_dir
                  THEN [options EXCEPT !.ignore_installed = TRUE]
                  ELSE options
    /\ Goto("user_site")
    /\ UNCHANGED <<install_options, calls, log, mode, marked, passed, inputs, collector, fs>>

\* lines 197-199
ForceDownloadDir ==
    /\ pc = "download_dir"
    /\ options' = IF options.download_dir
                  THEN [options EXCEPT !.no_install = TRUE, !.ignore_installed = TRUE]
                  ELSE options
    /\ Goto("user_site")
    /\ UNCHANGED <<install_options, calls, log, mode, marked, passed, inputs, collector, fs>>

\* mutant of UserSite: the isolation check placed after the target block
UserSite_AfterTarget ==
    /\ pc = "user_site"
    /\ IF options.use_user_site
       THEN \E virtualenv_no_global \in BOOLEAN :
               IF virtualenv_no_global
               THEN /\ Raise("user_site_virtualenv")
                    /\ temp_target_dir' = IF options.target_dir THEN "exists"
                                                                ELSE temp_target_dir
                    /\ UNCHANGED install_options
               ELSE /\ install_options' = Append(install_options, "--user")
                    /\ Goto("target_dir")
                    /\ UNCHANGED temp_target_dir
       ELSE Goto("target_dir") /\ UNCHANGED <<install_options, temp_target_dir>>
    /\ UNCHANGED <<options, calls, log, mode, marked, passed, inputs, collector,
                   target, targetPre, lib_dir, lib, listed, atRoot, nested>>

\* lines 203-206; virtualenv_no_global() is a query on the environment
UserSite ==
    /\ pc = "user_site"
    /\ IF options.use_user_site
       THEN \E virtualenv_no_global \in BOOLEAN :
               IF virtualenv_no_global
               THEN Raise("user_site_virtualenv") /\ UNCHANGED install_options
               ELSE /\ install_options' = Append(install_options, "--user")
                    /\ Goto("target_dir")
       ELSE Goto("target_dir") /\ UNCHANGED install_options
    /\ UNCHANGED <<options, calls, log, mode, marked, passed, inputs, collector, fs>>

\* mutant of TargetDir: the home directive names the real target directory
TargetDir_HomeIsTarget ==
    /\ pc = "target_dir"
    /\ IF options.target_dir
       THEN /\ options' = [options EXCEPT !.ignore_installed = TRUE]
            /\ temp_target_dir' = "exists"
            /\ IF target = "file"
               THEN Raise("target_not_dir") /\ UNCHANGED install_options
               ELSE /\ install_options' = Append(install_options, "--home=target_dir")
                    /\ Goto("requirement_set")
       ELSE Goto("requirement_set") /\ UNCHANGED <<options, temp_target_dir, install_options>>
    /\ UNCHANGED <<calls, log, mode, marked, passed, inputs, collector,
                   target, targetPre, lib_dir, lib, listed, atRoot, nested>>

\* mutant of TargetDir: line 208 missing
TargetDir_KeepsIgnoreInstalled ==
    /\ pc = "target_dir"
    /\ IF options.target_dir
       THEN /\ temp_target_dir' = "exists"
            /\ IF target = "file"
               THEN Raise("target_not_dir") /\ UNCHANGED install_options
               ELSE /\ install_options' = Append(install_options, "--home=temp_target_dir")
                    /\ Goto("requirement_set")
       ELSE Goto("requirement_set") /\ UNCHANGED <<temp_target_dir, install_options>>
    /\ UNCHANGED <<options, calls, log, mode, marked, passed, inputs, collector,
                   target, targetPre, lib_dir, lib, listed, atRoot, nested>>

\* lines 207-213
TargetDir ==
    /\ pc = "target_dir"
    /\ IF options.target_dir
       THEN /\ options' = [options EXCEPT !.ignore_installed = TRUE]
            /\ temp_target_dir' = "exists"
            /\ IF target = "file"
               THEN Raise("target_not_dir") /\ UNCHANGED install_options
               ELSE /\ install_options' = Append(install_options, "--home=temp_target_dir")
                    /\ Goto("requirement_set")
       ELSE Goto("requirement_set") /\ UNCHANGED <<options, temp_target_dir, install_options>>
    /\ UNCHANGED <<calls, log, mode, marked, passed, inputs, collector,
                   target, targetPre, lib_dir, lib, listed, atRoot, nested>>

\* mutant of PlanOf: ignore_installed not handed over (the collaborator's
\* default, False, applies)
PlanOf_DefaultIgnoreInstalled(opts) ==
    [download_dir |-> opts.download_dir,
     ignore_installed |-> FALSE,
     use_user_site |-> opts.use_user_site]

\* lines 222-232: the keyword arguments that come from modelled options
PlanOf(opts) ==
    [download_dir |-> opts.download_dir,
     ignore_installed |-> opts.ignore_installed,
     use_user_site |-> opts.use_user_site]

\* lines 222-232
Construct ==
    /\ pc = "requirement_set"
    /\ plan' = <<PlanOf(options)>>
    /\ Goto("collect_args")
    /\ UNCHANGED <<options, install_options, calls, log, mode, marked, passed, inputs,
                   requirement_set, idx, sub, parsed, fs>>

Requirement(kind, file, n) == [kind |-> kind, file |-> file, n |-> n]

\* lines 233-235
AddPositional ==
    /\ pc = "collect_args"
    /\ IF idx <= args
       THEN /\ requirement_set' = Append(requirement_set, Requirement("line", 0, idx))
            /\ idx' = idx + 1
            /\ Goto("collect_args")
       ELSE /\ idx' = 1
            /\ Goto("collect_editables")
            /\ UNCHANGED requirement_set
    /\ UNCHANGED <<options, install_options, calls, log, mode, marked, passed, inputs, sub, parsed, plan, fs>>

\* mutant of AddEditable: editables are put in front of what was collected
AddEditable_Prepends ==
    /\ pc = "collect_editables"
    /\ IF idx <= options.editables
       THEN /\ requirement_set' = <<Requirement("editable", 0, idx)>> \o requirement_set
            /\ idx' = idx + 1
            /\ Goto("collect_editables")
       ELSE /\ idx' = 1
            /\ Goto("collect_files")
            /\ UNCHANGED requirement_set
    /\ UNCHANGED <<options, install_options, calls, log, mode, marked, passed, inputs,
                   sub, parsed, plan, fs>>

\* lines 236-238
AddEditable ==
    /\ pc = "collect_editables"
    /\ IF idx <= options.editables
       THEN /\ requirement_set' = Append(requirement_set, Requirement("editable", 0, idx))
            /\ idx' = idx + 1
            /\ Goto("collect_editables")
       ELSE /\ idx' = 1
            /\ Goto("collect_files")
            /\ UNCHANGED requirement_set
    /\ UNCHANGED <<options, install_options, calls, log, mode, marked, passed, inputs, sub, parsed, plan, fs>>

\* lines 239-241: outer loop over the files, inner loop over one file's entries
AddFromFile ==
    /\ pc = "collect_files"
    /\ IF idx > Len(requirements)
       THEN Goto("has_requirements") /\ UNCHANGED collector
       ELSE IF sub <= requirements[idx]
            THEN /\ requirement_set' = Append(requirement_set, Requirement("file", idx, sub))
                 /\ sub' = sub + 1
                 /\ idx' = idx
                 /\ parsed' = IF sub = 1 THEN Append(parsed, idx) ELSE parsed
                 /\ plan' = plan
                 /\ Goto("collect_files")
            ELSE /\ idx' = idx + 1
                 /\ sub' = 1
                 \* a file that yields nothing is parsed and exhausted at once
                 /\ parsed' = IF sub = 1 THEN Append(parsed, idx) ELSE parsed
                 /\ Goto("collect_files")
                 /\ UNCHANGED <<requirement_set, plan>>
    /\ UNCHANGED <<options, install_options, calls, log, mode, marked, passed, inputs, fs>>

\* RequirementSet.has_requirements / has_editables (properties read at 242, 260)
has_requirements == Len(requirement_set) > 0
has_editables == \E i \in 1..Len(requirement_set) : requirement_set[i].kind = "editable"

\* mutant of CheckEmpty: the soft exit replaced by falling through to the checks
CheckEmpty_FallsThrough ==
    /\ pc = "has_requirements"
    /\ IF ~has_requirements
       THEN \E find_links \in BOOLEAN :
                 log' = Append(log, [level |-> "warn",
                                     msg |-> IF find_links THEN "give_requirement_links"
                                                           ELSE "give_requirement_help",
                                     names |-> {}])
       ELSE UNCHANGED log
    /\ Goto("version")
    /\ UNCHANGED <<options, install_options, calls, mode, marked, passed, inputs, collector, fs>>

\* lines 242-252; options.find_links only selects the wording
CheckEmpty ==
    /\ pc = "has_requirements"
    /\ IF ~has_requirements
       THEN /\ \E find_links \in BOOLEAN :
                 log' = Append(log, [level |-> "warn",
                                     msg |-> IF find_links THEN "give_requirement_links"
                                                           ELSE "give_requirement_help",
                                     names |-> {}])
            /\ Return("None")
       ELSE Goto("version") /\ UNCHANGED log
    /\ UNCHANGED <<options, install_options, calls, mode, marked, passed, inputs, collector, fs>>

\* lines 254-256; sys.version_info < (2, 6) is a query on the interpreter
CheckVersion ==
    /\ pc = "version"
    /\ \E old_python \in BOOLEAN :
          IF options.use_user_site /\ old_python
          THEN Raise("user_old_python")
          ELSE Goto("user_editable")
    /\ UNCHANGED <<options, install_options, calls, log, mode, marked, passed, inputs, collector, fs>>

\* mutant of CheckUserEditable: the check placed after the acquisition call
CheckUserEditable_AfterAcquire ==
    /\ pc = "user_editable"
    /\ \E distribute \in BOOLEAN :
          IF options.use_user_site /\ has_editables /\ ~distribute
          THEN /\ calls' = Append(calls, IF ~options.no_download THEN "prepare_files"
                                                                   ELSE "locate_files")
               /\ Raise("user_editable")
          ELSE Goto("acquire") /\ UNCHANGED calls
    /\ UNCHANGED <<options, install_options, log, mode, marked, passed, inputs, collector, fs>>

\* lines 258-263; getattr(setuptools, '_distribute', False) is a query on the tooling
CheckUserEditable ==
    /\ pc = "user_editable"
    /\ \E distribute \in BOOLEAN :
          IF options.use_user_site /\ has_editables /\ ~distribute
          THEN Raise("user_editable")
          ELSE Goto("acquire")
    /\ UNCHANGED <<options, install_options, calls, log, mode, marked, passed, inputs, collector, fs>>

\* mutant of AcquirePhase: the test on no_download inverted
AcquirePhase_Inverted(opts) == IF opts.no_download THEN "prepare_files" ELSE "locate_files"

\* line 265: which acquisition phase is called
AcquirePhase(opts) == IF ~opts.no_download THEN "prepare_files" ELSE "locate_files"

\* mutant of Acquire: the error of the acquisition call is recorded and swallowed
Acquire_Swallows ==
    /\ pc = "acquire"
    /\ calls' = Append(calls, AcquirePhase(options))
    /\ \E ok \in BOOLEAN :
          IF ok THEN Goto("mode")
          ELSE pc' = "mode" /\ err' = AcquirePhase(options) /\ ret' = ret
    /\ UNCHANGED <<options, install_options, log, mode, marked, passed, inputs, collector, fs>>

\* lines 265-268
Acquire ==
    /\ pc = "acquire"
    /\ calls' = Append(calls, AcquirePhase(options))
    /\ \E ok \in BOOLEAN :
          IF ok THEN Goto("mode") ELSE Raise(AcquirePhase(options))
    /\ UNCHANGED <<options, install_options, log, mode, marked, passed, inputs, collector, fs>>
\* mutant of ModeOf: no_install tested before the bundle variant
ModeOf_NoInstallFirst(opts, b) ==
    IF opts.no_install THEN "downloaded"
    ELSE IF b THEN "bundle"
    ELSE "install"

\* lines 270, 276, 281: the if / elif / elif chain
ModeOf(opts, b) ==
    IF ~opts.no_install /\ ~b THEN "install"
    ELSE IF ~b THEN "downloaded"
    ELSE "bundle"

\* per-requirement outcomes the collaborator may record without raising:
\* successfully_installed / successfully_downloaded (lines 273, 278)
Outcomes == {1..k : k \in 0..Len(requirement_set)}

Notify(msg, names) == Append(log, [level |-> "notify", msg |-> msg, names |-> names])

\* mutant of InstallMode: the notice names every requirement of the set
InstallMode_NamesAll ==
    /\ pc = "mode"
    /\ ModeOf(options, bundle) = "install"
    /\ mode' = "install"
    /\ calls' = Append(calls, "install")
    /\ passed' = <<install_options>>
    /\ \E ok \in BOOLEAN :
          IF ok
          THEN /\ \E successfully_installed \in Outcomes :
                     /\ marked' = successfully_installed
                     /\ log' = Notify("Successfully installed", 1..Len(requirement_set))
               /\ IF options.target_dir
                  THEN /\ lib_dir' = "exists"
                       /\ \E staged \in SUBSET Items : lib' = staged
                  ELSE UNCHANGED <<lib_dir, lib>>
               /\ Goto("cleanup")
          ELSE Raise("install") /\ UNCHANGED <<log, marked, lib_dir, lib>>
    /\ UNCHANGED <<options, install_options, inputs, collector,
                   temp_target_dir, target, targetPre, listed, atRoot, nested>>

\* lines 270-275
InstallMode ==
    /\ pc = "mode"
    /\ ModeOf(options, bundle) = "install"
    /\ mode' = "install"
    /\ calls' = Append(calls, "install")
    /\ passed' = <<install_options>>
    /\ \E ok \in BOOLEAN :
          IF ok
          THEN /\ \E successfully_installed \in Outcomes :
                     /\ marked' = successfully_installed
                     /\ log' = IF successfully_installed # {}
                               THEN Notify("Successfully installed", successfully_installed)
                               ELSE log
               \* with --home=<temp> the install step stages its output under home_lib(temp)
               /\ IF options.target_dir
                  THEN /\ lib_dir' = "exists"
                       /\ \E staged \in SUBSET Items : lib' = staged
                  ELSE UNCHANGED <<lib_dir, lib>>
               /\ Goto("cleanup")
          ELSE Raise("install") /\ UNCHANGED <<log, marked, lib_dir, lib>>
    /\ UNCHANGED <<options, install_options, inputs, collector,
                   temp_target_dir, target, targetPre, listed, atRoot, nested>>

\* lines 276-280
DownloadedMode ==
    /\ pc = "mode"
    /\ ModeOf(options, bundle) = "downloaded"
    /\ mode' = "downloaded"
    /\ \E successfully_downloaded \in Outcomes :
          /\ marked' = successfully_downloaded
          /\ log' = IF successfully_downloaded # {}
                    THEN Notify("Successfully downloaded", successfully_downloaded)
                    ELSE log
    /\ Goto("cleanup")
    /\ UNCHANGED <<options, install_options, calls, passed, inputs, collector, fs>>

\* lines 281-283
BundleMode ==
    /\ pc = "mode"
    /\ ModeOf(options, bundle) = "bundle"
    /\ mode' = "bundle"
    /\ calls' = Append(calls, "create_bundle")
    /\ \E ok \in BOOLEAN :
          IF ok
          THEN log' = Notify("Created bundle", {}) /\ Goto("cleanup")
          ELSE Raise("create_bundle") /\ UNCHANGED log
    /\ UNCHANGED <<options, install_options, marked, passed, inputs, collector, fs>>

\* mutant of NeedsCleanup: cleanup made unconditional
NeedsCleanup_Always(opts) == opts.no_install \/ ~opts.no_install

\* mutant of NeedsCleanup: the download_dir disjunct dropped
NeedsCleanup_InstallOnly(opts) == ~opts.no_install

\* line 285
NeedsCleanup(opts) == ~opts.no_install \/ opts.download_dir

\* lines 285-286
Cleanup ==
    /\ pc = "cleanup"
    /\ IF NeedsCleanup(options)
       THEN /\ calls' = Append(calls, "cleanup_files")
            /\ \E ok \in BOOLEAN :
                  IF ok THEN Goto("relocate") ELSE Raise("cleanup_files")
       ELSE Goto("relocate") /\ UNCHANGED calls
    /\ UNCHANGED <<options, install_options, log, mode, marked, passed, inputs, collector, fs>>

\* lines 287-289 (and 297 when no target directory was given)
Makedirs ==
    /\ pc = "relocate"
    /\ IF ~options.target_dir
       THEN Return("requirement_set") /\ UNCHANGED <<calls, target>>
       ELSE IF target = "absent"
            THEN /\ calls' = Append(calls, "makedirs")
                 /\ \E ok \in BOOLEAN :
                       IF ok THEN target' = "dir" /\ Goto("listdir")
                             ELSE Raise("makedirs") /\ UNCHANGED target
            ELSE Goto("listdir") /\ UNCHANGED <<calls, target>>
    /\ UNCHANGED <<options, install_options, log, mode, marked, passed, inputs, collector,
                   temp_target_dir, targetPre, lib_dir, lib, listed, atRoot, nested>>

\* lines 290-291: os.listdir raises when home_lib(temp) was never created
Listdir ==
    /\ pc = "listdir"
    /\ calls' = Append(calls, "listdir")
    /\ IF lib_dir = "missing"
       THEN Raise("listdir") /\ UNCHANGED listed
       ELSE listed' = lib /\ Goto("move")
    /\ UNCHANGED <<options, install_options, log, mode, marked, passed, inputs, collector,
                   temp_target_dir, target, targetPre, lib_dir, lib, atRoot, nested>>

\* mutant of MoveFailed: a handler that puts the moved entries back
MoveFailed_Rollback ==
    /\ Raise("move")
    /\ lib' = lib \cup atRoot \cup nested
    /\ listed' = listed
    /\ atRoot' = {}
    /\ nested' = {}

\* what a failed shutil.move of one entry leaves behind (lines 292-295: the
\* loop has no handler, so nothing is undone)
MoveFailed ==
    /\ Raise("move")
    /\ UNCHANGED <<lib, listed, atRoot, nested>>

\* lines 291-295, one iteration of the loop in os.listdir order (any order).
\* shutil.move(src, dst) with dst an existing directory moves src INSIDE dst
\* (dst/basename(src)), and raises if that path exists.
Move ==
    /\ pc = "move"
    /\ listed # {}
    /\ calls' = Append(calls, "move")
    /\ \E item \in listed, ok \in BOOLEAN :
          IF ok
          THEN /\ lib' = lib \ {item}
               /\ listed' = listed \ {item}
               /\ IF item \in targetPre
                  THEN nested' = nested \cup {item} /\ atRoot' = atRoot
                  ELSE atRoot' = atRoot \cup {item} /\ nested' = nested
               /\ Goto("move")
          ELSE MoveFailed
    /\ UNCHANGED <<options, install_options, log, mode, marked, passed, inputs, collector,
                   temp_target_dir, target, targetPre, lib_dir>>

\* lines 296-297
Rmtree ==
    /\ pc = "move"
    /\ listed = {}
    /\ calls' = Append(calls, "rmtree")
    /\ \E ok \in BOOLEAN :
          IF ok
          THEN /\ temp_target_dir' = "removed"
               /\ lib_dir' = "missing"
               /\ Return("requirement_set")
          ELSE Raise("rmtree") /\ UNCHANGED <<temp_target_dir, lib_dir>>
    /\ UNCHANGED <<options, install_options, log, mode, marked, passed, inputs, collector,
                   target, targetPre, lib, listed, atRoot, nested>>

Next ==
    \/ ForceDownloadDir
    \/ UserSite
    \/ TargetDir
    \/ Construct
    \/ AddPositional
    \/ AddEditable
    \/ AddFromFile
    \/ CheckEmpty
    \/ CheckVersion
    \/ CheckUserEditable
    \/ Acquire
    \/ InstallMode
    \/ DownloadedMode
    \/ BundleMode
    \/ Cleanup
    \/ Makedirs
    \/ Listdir
    \/ Move
    \/ Rmtree

Spec == Init /\ [][Next]_vars

TypeOK ==
    /\ pc \in {"download_dir", "user_site", "target_dir", "requirement_set", "collect_args",
               "collect_editables", "collect_files", "has_requirements", "version",
               "user_editable", "acquire", "mode", "cleanup", "relocate", "listdir",
               "move", "done", "failed"}
    /\ ret \in {"pending", "None", "requirement_set"}
    /\ mode \in {"none", "install", "downloaded", "bundle"}
    /\ temp_target_dir \in {"unset", "exists", "removed"}
    /\ (pc = "failed") <=> (err # "none")
    /\ (pc = "done") <=> (ret # "pending")
\* ---- where a run stands, read off pc / err / ret ----
ConfigErrs == {"user_site_virtualenv", "target_not_dir", "user_old_python", "user_editable"}
AcquireErrs == {"prepare_files", "locate_files"}
RelocErrs == {"makedirs", "listdir", "move", "rmtree"}
Ended == pc \in {"done", "failed"}
Completed == pc = "done" /\ ret = "requirement_set"
PastAcquire ==
    \/ pc \in {"mode", "cleanup", "relocate", "listdir", "move"}
    \/ Completed
    \/ pc = "failed" /\ err \in {"install", "create_bundle", "cleanup_files"} \cup RelocErrs
PastMode ==
    \/ pc \in {"cleanup", "relocate", "listdir", "move"}
    \/ Completed
    \/ pc = "failed" /\ err \in {"cleanup_files"} \cup RelocErrs
PastCleanup ==
    \/ pc \in {"relocate", "listdir", "move"}
    \/ Completed
    \/ pc = "failed" /\ err \in {"cleanup_files"} \cup RelocErrs
Logged(level, msg) == Cardinality({i \in 1..Len(log) : log[i].level = level /\ log[i].msg = msg})
Warnings == Cardinality({i \in 1..Len(log) : log[i].level = "warn"})

\* C1: once a run is past the mode phase exactly one mode action has happened,
\* chosen by priority: bundle (create_bundle, never install, whatever no_install
\* is), else no_install (only the downloaded report), else install; and in no
\* state of any run have two of the three happened.
C1_ModeSelection ==
    /\ Count(calls, "install") + Count(calls, "create_bundle") <= 1
    /\ mode = "downloaded" => ~Called("install") /\ ~Called("create_bundle")
    /\ PastMode =>
          IF bundle
          THEN /\ mode = "bundle"
               /\ Count(calls, "create_bundle") = 1
               /\ ~Called("install")
               /\ Logged("notify", "Successfully downloaded") = 0
               /\ Logged("notify", "Successfully installed") = 0
          ELSE IF options.no_install
          THEN /\ mode = "downloaded"
               /\ ~Called("install")
               /\ ~Called("create_bundle")
               /\ Logged("notify", "Successfully installed") = 0
               /\ Logged("notify", "Created bundle") = 0
          ELSE /\ mode = "install"
               /\ Count(calls, "install") = 1
               /\ ~Called("create_bundle")
               /\ Logged("notify", "Successfully downloaded") = 0
               /\ Logged("notify", "Created bundle") = 0

\* a bundle run with no_install requested went through create_bundle and returned
C1_Witness ==
    /\ Completed
    /\ bundle
    /\ given.no_install
    /\ Called("create_bundle")

\* C2: once a run is past the cleanup step, cleanup_files has been called (once)
\* if the install phase ran or a download directory was requested; and on a run
\* where no_install was requested and no download directory given it is never
\* called.
C2_CleanupCondition ==
    /\ PastCleanup /\ (mode = "install" \/ given.download_dir)
          => Count(calls, "cleanup_files") = 1
    /\ given.no_install /\ ~given.download_dir => ~Called("cleanup_files")

C2_Witness ==
    /\ Completed
    /\ mode = "install"
    /\ Called("install")
    /\ Called("cleanup_files")

C2_WitnessDownloadOnly ==
    /\ Completed
    /\ given.no_install
    /\ ~given.download_dir
    /\ mode = "downloaded"
    /\ ~Called("cleanup_files")
\* C3 as stated: a completed non-bundle run with a download directory took the
\* downloaded branch with no_install and ignore_installed forced true, never
\* called install, and did NOT call cleanup_files.
C3_AsStated ==
    ~bundle /\ given.download_dir /\ Completed =>
        /\ mode = "downloaded"
        /\ options.no_install /\ options.ignore_installed
        /\ ~Called("install")
        /\ ~Called("cleanup_files")

\* C3 amended: on a non-bundle run with a download directory, no_install and
\* ignore_installed are forced true from the first statement on, install is
\* never called, and once the run is past the cleanup step it took the
\* downloaded branch and cleanup_files HAS been called, exactly once, after it.
C3_DownloadDirRun ==
    ~bundle /\ given.download_dir =>
        /\ ~Called("install")
        /\ pc # "download_dir" => options.no_install /\ options.ignore_installed
        /\ PastCleanup =>
              /\ mode = "downloaded"
              /\ Count(calls, "cleanup_files") = 1
              /\ calls[2] = "cleanup_files"

\* download directory given, the user passed neither no_install nor
\* ignore_installed, the run returned the requirement set
C3_Witness ==
    /\ Completed
    /\ ~bundle
    /\ given.download_dir /\ ~given.no_install /\ ~given.ignore_installed
    /\ mode = "downloaded"
    /\ Called("cleanup_files")

\* C4 as stated: when acquisition, install or relocation raised, the run has
\* called cleanup_files and no temporary redirect directory is left.
C4_CleanupOnError ==
    pc = "failed" /\ err \in AcquireErrs \cup {"install"} \cup RelocErrs =>
        /\ Called("cleanup_files")
        /\ temp_target_dir # "exists"

\* C5 as stated: the temporary directory is created only for a target
\* directory, exists before any acquisition call, and a run that created it
\* ends with it deleted unless relocation failed.
C5_TempDirLifecycle ==
    /\ temp_target_dir # "unset" => given.target_dir
    /\ (Called("prepare_files") \/ Called("locate_files")) /\ given.target_dir
          => temp_target_dir # "unset"
    /\ Ended /\ temp_target_dir = "exists" => pc = "failed" /\ err \in RelocErrs

\* C6 as stated: a completed run with a target directory leaves the target a
\* directory, every staged entry at the target root under its own name, nothing
\* staged, the temporary directory deleted only after the last move, and the
\* relocation calls after cleanup_files.
C6_Relocation ==
    /\ Called("rmtree") => listed = {} /\ lib = {}
    /\ given.target_dir /\ Completed =>
          /\ target = "dir"
          /\ lib = {}
          /\ nested = {}
          /\ Cardinality(atRoot) = Count(calls, "move")
          /\ temp_target_dir = "removed"
          /\ \A i, j \in 1..Len(calls) :
                calls[i] = "cleanup_files" /\ calls[j] \in {"makedirs", "listdir", "move", "rmtree"}
                   => i < j

\* C7: when the k-th move raised, the k-1 entries moved before are in the
\* target (nothing rolled back), the others are still staged, the temporary
\* directory exists and rmtree was not called, and the run did not return.
C7_NoRollback ==
    pc = "failed" /\ err = "move" =>
        /\ Cardinality(atRoot \cup nested) = Count(calls, "move") - 1
        /\ (atRoot \cup nested) \cap lib = {}
        /\ listed # {}
        /\ listed = lib
        /\ temp_target_dir = "exists"
        /\ lib_dir = "exists"
        /\ ~Called("rmtree")
        /\ ret = "pending"

\* the second move failed after the first had succeeded
C7_Witness ==
    /\ pc = "failed"
    /\ err = "move"
    /\ Count(calls, "move") = 2
    /\ atRoot \cup nested # {}

\* C8: before the acquisition step no collaborator call has been made; past it
\* exactly one acquisition call has been made, once, as the first call:
\* prepare_files when no_download is false, locate_files when it is true.
C8_OneAcquisition ==
    /\ Count(calls, "prepare_files") + Count(calls, "locate_files") <= 1
    /\ calls # <<>> => calls[1] = (IF given.no_download THEN "locate_files" ELSE "prepare_files")
    /\ PastAcquire \/ (pc = "failed" /\ err \in AcquireErrs)
          => Count(calls, "prepare_files") + Count(calls, "locate_files") = 1

\* no_download run: locate_files, then install and cleanup_files
C8_Witness ==
    /\ Completed
    /\ given.no_download
    /\ calls[1] = "locate_files"
    /\ Called("install")
    /\ Called("cleanup_files")

\* the three sources hold no requirement
NoSpecs == args = 0 /\ given.editables = 0 /\ \A f \in 1..Len(requirements) : requirements[f] = 0

\* C9 as stated: a run whose three sources yield no requirement ends with
\* exactly one warning, no collaborator call, and no error.
C9_AsStated ==
    NoSpecs /\ Ended =>
        /\ Warnings = 1
        /\ calls = <<>>
        /\ pc = "done"

\* C9 amended: a run whose three sources yield no requirement and whose
\* normalisation raised neither the user-site nor the target-path error ends
\* with exactly one warning, no collaborator call, and returns without error;
\* and no run emits the warning otherwise.
C9_EmptySoftExit ==
    /\ NoSpecs /\ Ended /\ err \notin {"user_site_virtualenv", "target_not_dir"} =>
          /\ Warnings = 1
          /\ Len(log) = 1
          /\ calls = <<>>
          /\ pc = "done"
          /\ ret = "None"
    /\ Warnings <= 1
    /\ Warnings = 1 => NoSpecs /\ calls = <<>>

\* an empty run with a requirement file that yields nothing
C9_Witness ==
    /\ NoSpecs
    /\ Len(requirements) > 0
    /\ pc = "done"
    /\ Warnings = 1

\* C10: whenever one of the four configuration / usage errors has been raised,
\* no acquisition, install, bundle or cleanup call has been made, before or
\* after it.
C10_ConfigErrorsFirst ==
    err \in ConfigErrs =>
        /\ pc = "failed"
        /\ \A i \in 1..Len(calls) :
              calls[i] \notin {"prepare_files", "locate_files", "install",
                               "create_bundle", "cleanup_files"}

\* --user with an editable requirement and no distribute
C10_Witness ==
    /\ pc = "failed"
    /\ err = "user_editable"
    /\ given.use_user_site
    /\ has_editables
\* C11: when the user-site isolation error has been raised, the RequirementSet
\* was never constructed, no requirement was added, no requirement file was
\* parsed and no temporary redirect directory was created; and that error is
\* raised only on a run with use_user_site.
C11_IsolationFailsFirst ==
    err = "user_site_virtualenv" =>
        /\ pc = "failed"
        /\ given.use_user_site
        /\ plan = <<>>
        /\ requirement_set = <<>>
        /\ parsed = <<>>
        /\ temp_target_dir = "unset"
        /\ calls = <<>>

\* --user in an isolated environment, on a run that had specifiers, a
\* requirement file and a target directory to work on
C11_Witness ==
    /\ pc = "failed"
    /\ err = "user_site_virtualenv"
    /\ given.target_dir
    /\ args > 0
    /\ Len(requirements) > 0
\* C12: on a run with a download directory, whatever the user passed for
\* no_install and ignore_installed, both are true from the first statement on,
\* the RequirementSet is constructed with ignore_installed true and that
\* download directory, and install is never called.
C12_DownloadDirForces ==
    given.download_dir =>
        /\ pc # "download_dir" => options.no_install /\ options.ignore_installed
        /\ plan # <<>> => plan[1].ignore_installed /\ plan[1].download_dir
        /\ ~Called("install")
        /\ mode # "install"

\* the user passed neither flag; the run is past the mode phase
C12_Witness ==
    /\ PastMode
    /\ plan # <<>>
    /\ given.download_dir
    /\ ~given.no_install
    /\ ~given.ignore_installed
    /\ ~given.target_dir
\* C13: on a run with a target directory the RequirementSet is constructed
\* with ignore_installed true, whatever the user passed, and the temporary
\* redirect directory exists when the acquisition call is made (and from its
\* creation until the acquisition call has returned).
C13_TargetDirForces ==
    given.target_dir =>
        /\ plan # <<>> => plan[1].ignore_installed /\ options.ignore_installed
        /\ plan # <<>> => temp_target_dir # "unset"
        /\ pc \in {"acquire", "mode"} => temp_target_dir = "exists"
        /\ calls # <<>> /\ Len(calls) = 1 => temp_target_dir = "exists"

\* the acquisition call has just returned on a target-directory run where the
\* user did not pass ignore_installed
C13_Witness ==
    /\ pc = "mode"
    /\ Len(calls) = 1
    /\ given.target_dir
    /\ ~given.ignore_installed
    /\ ~given.download_dir
    /\ temp_target_dir = "exists"
\* the driver state of the design (Idle, Collected, Prepared, Installed |
\* Downloaded | Bundled, CleanedUp, Done, Failed) a position of run stands for
Phase ==
    IF err # "none" \/ pc = "failed" THEN "Failed"
    ELSE IF pc = "done" THEN "Done"
    ELSE IF pc \in {"download_dir", "user_site", "target_dir", "requirement_set",
                    "collect_args", "collect_editables", "collect_files",
                    "has_requirements"} THEN "Idle"
    ELSE IF pc \in {"version", "user_editable", "acquire"} THEN "Collected"
    ELSE IF pc = "mode" THEN "Prepared"
    ELSE IF pc = "cleanup"
         THEN (IF mode = "install" THEN "Installed"
               ELSE IF mode = "downloaded" THEN "Downloaded" ELSE "Bundled")
    ELSE "CleanedUp"

Rank(ph) ==
    CASE ph = "Idle" -> 0
      [] ph = "Collected" -> 1
      [] ph = "Prepared" -> 2
      [] ph \in {"Installed", "Downloaded", "Bundled"} -> 3
      [] ph = "CleanedUp" -> 4
      [] ph = "Done" -> 5
      [] ph = "Failed" -> 6

\* a step keeps the phase, enters the next phase of the order, or fails; after
\* a failure no collaborator call is added
PhaseStep ==
    /\ \/ Phase' = Phase
       \/ Phase' = "Failed" /\ Phase # "Done"
       \/ Phase # "Failed" /\ Rank(Phase') = Rank(Phase) + 1
    /\ Phase = "Failed" => calls' = calls /\ Phase' = "Failed"

\* C14 as stated: every step of every run keeps the phase, enters the next
\* phase of Idle, Collected, Prepared, Installed|Downloaded|Bundled, CleanedUp,
\* Done, or enters Failed; and in Failed no call is made.
C14_AsStated == [][PhaseStep]_vars

\* the soft exit of an empty collection: Idle straight to Done
SoftExitStep ==
    /\ Phase = "Idle"
    /\ Phase' = "Done"
    /\ ~has_requirements
    /\ ret' = "None"
    /\ calls' = calls

\* C14 amended: as stated, except that a run whose collection is empty goes
\* from Idle straight to Done (no Collected, Prepared, mode or CleanedUp
\* phase); a run with a non-empty collection never does.
C14_PhaseOrder ==
    [][\/ PhaseStep /\ (Phase = "Idle" /\ Phase' = "Collected" => has_requirements)
       \/ SoftExitStep]_vars

\* a run that went through every phase and returned the requirement set
C14_Witness ==
    /\ Phase = "Done"
    /\ ret = "requirement_set"
    /\ mode = "bundle"
    /\ Called("cleanup_files")
    /\ Len(calls) = 3
SuccessNotices ==
    {i \in 1..Len(log) : log[i].msg \in {"Successfully installed", "Successfully downloaded"}}

\* C15: whatever subset of the requirements the collaborator marks as
\* successful without raising, the run goes on to the cleanup step (it leaves
\* the mode phase only by a raising install / create_bundle call), and once
\* past the mode phase of an install or no-install run the log holds exactly
\* one success notice, of that mode, naming exactly the marked requirements
\* when that set is non-empty, and no success notice when it is empty.
C15_PartialSuccessReported ==
    /\ marked \subseteq 1..Len(requirement_set)
    /\ mode # "none" /\ err \notin {"install", "create_bundle"} => PastMode
    /\ mode = "bundle" \/ mode = "none" => SuccessNotices = {}
    /\ mode \in {"install", "downloaded"} /\ PastMode =>
          IF marked = {}
          THEN SuccessNotices = {}
          ELSE /\ Cardinality(SuccessNotices) = 1
               /\ \A i \in SuccessNotices :
                     /\ log[i].level = "notify"
                     /\ log[i].names = marked
                     /\ log[i].msg = (IF mode = "install" THEN "Successfully installed"
                                                          ELSE "Successfully downloaded")

\* some but not all requirements installed; the run went on through cleanup
\* and relocation and returned
C15_Witness ==
    /\ Completed
    /\ mode = "install"
    /\ marked # {}
    /\ marked # 1..Len(requirement_set)
    /\ Called("cleanup_files")
    /\ Called("rmtree")
\* C16: the install_options argument of the install call is the user's list,
\* then "--user" iff use_user_site, then the home directive iff a target
\* directory was given; the home directive names the temporary directory, which
\* exists at the time of the call, and never the real target directory.
C16_InstallOptions ==
    /\ Called("install") <=> passed # <<>>
    /\ passed # <<>> =>
          /\ passed[1] = given.install_options
                           \o (IF given.use_user_site THEN <<"--user">> ELSE <<>>)
                           \o (IF given.target_dir THEN <<"--home=temp_target_dir">> ELSE <<>>)
          /\ \A i \in 1..Len(passed[1]) : passed[1][i] # "--home=target_dir"
          /\ given.target_dir /\ pc = "cleanup" => temp_target_dir = "exists"

\* install was called with the user's option, --user and the home directive
C16_Witness ==
    /\ Called("install")
    /\ passed = << <<"--opt", "--user", "--home=temp_target_dir">> >>
    /\ given.use_user_site
    /\ given.target_dir
\* the three sources laid end to end: positional specifiers in argument order,
\* editables in option order, then file by file in list order, each file's
\* entries in file order
FileEntries(f) == [n \in 1..requirements[f] |-> [kind |-> "file", file |-> f, n |-> n]]

RECURSIVE FilesUpTo(_)
FilesUpTo(k) == IF k = 0 THEN <<>> ELSE FilesUpTo(k - 1) \o FileEntries(k)

SourceOrder ==
    [i \in 1..args |-> [kind |-> "line", file |-> 0, n |-> i]]
      \o [i \in 1..given.editables |-> [kind |-> "editable", file |-> 0, n |-> i]]
      \o FilesUpTo(Len(requirements))

IsPrefix(s, t) == Len(s) <= Len(t) /\ \A i \in 1..Len(s) : s[i] = t[i]

Collecting == pc \in {"collect_args", "collect_editables", "collect_files"}

C18_RelocationOnlyAfterInstall ==
    Called("listdir") \/ Called("move") => Called("install")

\* C19 as stated: cleanup_files is called only on runs in which install was
\* called or a download directory was requested (so never on a bundle run
\* without a download directory).
C19_AsStated ==
    /\ Called("cleanup_files") => Called("install") \/ given.download_dir
    /\ bundle /\ ~given.download_dir => ~Called("cleanup_files")

\* C19 amended: cleanup_files is called only on runs in which no_install was
\* not requested (install ran, or the run is a bundle run) or a download
\* directory was requested; a bundle run without a download directory that is
\* past the cleanup step has called cleanup_files exactly when no_install was
\* not requested.
C19_CleanupOnlyWhen ==
    /\ Called("cleanup_files") =>
          \/ Called("install")
          \/ given.download_dir
          \/ bundle /\ ~given.no_install /\ Called("create_bundle")
    /\ Count(calls, "cleanup_files") <= 1
    /\ bundle /\ ~given.download_dir /\ PastCleanup =>
          (Called("cleanup_files") <=> ~given.no_install)

\* a bundle run without download directory and without no_install returned
\* after calling cleanup_files
C19_Witness ==
    /\ Completed
    /\ bundle
    /\ ~given.download_dir
    /\ ~given.no_install
    /\ ~Called("install")
    /\ Called("cleanup_files")
====
